---- MODULE Spec2Model ----
(***************************************************************************)
(* A model of Wamos2/polar_image.py (class PolarImage) and of the .png     *)
(* load path of PolarImageInspector.open_image.                            *)
(*                                                                         *)
(* Bytes and characters are one-character strings ("latin1" maps a byte    *)
(* to the character of the same code).  The element "^B2" stands for the   *)
(* single byte 0xB2, which latin1 decodes to SUPERSCRIPT TWO, and "^60"    *)
(* for the byte 0x60.  Byte strings and text are sequences of such         *)
(* elements; indices of the Python code are 0-based and are kept 0-based   *)
(* in the operators below.                                                 *)
(***************************************************************************)
EXTENDS Integers, Sequences, FiniteSets, TLC

VARIABLES
    content,          \* the bytes of the file at file_path
    readable,         \* whether open()/read() of file_path succeeds
    constructed,      \* whether PolarImage.__init__ has run
    header,           \* self.header
    eoh,              \* self.eoh (NoEoh while it is None)
    image_size,       \* self.image_size
    image_data,       \* self.image_data (<<>> while it is None or b"")
    has_image_array,  \* whether the attribute self.image_array exists
    image_array,      \* self.image_array: a sequence of rays (<<>>: np.array([]))
    calls,            \* the methods __init__ has executed
    log,              \* the messages written to the logger (by kind)
    renders,          \* the number of render calls made on the session
    last_render,      \* the outcome of the last render call
    pixels_to_omit,   \* pixels_to_omit of the last render call that computed it
    interpolations,   \* the number of interpolate calls made on the session
    last_interpolate, \* the outcome of the last interpolate call
    has_png,          \* whether save_with_metadata has written its raster
    png_text,         \* the "json_data" text field of that raster
    loaded,           \* whether open_image has loaded that raster
    data_dict,        \* PolarImageInspector.data_dict after the load
    at_in,            \* the argument of an auto_type call
    at_out            \* the result of that call

vars == <<content, readable, constructed, renders, interpolations, header, eoh,
          image_size, image_data, has_image_array, image_array, calls, log,
          last_render, pixels_to_omit, last_interpolate, has_png, png_text,
          loaded, data_dict, at_in, at_out>>

sessionVars == <<content, readable, constructed, header, eoh, image_size,
                 image_data, has_image_array, image_array, calls, log, renders,
                 last_render, pixels_to_omit, interpolations, last_interpolate,
                 has_png, png_text, loaded, data_dict>>

----------------------------------------------------------------------------
(* Python's str / bytes primitives, as the code uses them.                 *)

Min(a, b) == IF a < b THEN a ELSE b

Max(a, b) == IF a > b THEN a ELSE b

\* s[a:b] for 0 <= a
Slice(s, a, b) == SubSeq(s, a + 1, Min(b, Len(s)))

\* s[a:] for 0 <= a
SliceFrom(s, a) == SubSeq(s, a + 1, Len(s))

\* s.startswith(pat)
StartsWith(s, pat) == Len(s) >= Len(pat) /\ SubSeq(s, 1, Len(pat)) = pat

\* s.find(pat): the lowest 0-based index where pat occurs in s, or -1
Find(s, pat) ==
    LET hits == {i \in 0..(Len(s) - Len(pat)) : Slice(s, i, i + Len(pat)) = pat}
    IN  IF hits = {} THEN -1 ELSE CHOOSE i \in hits : \A j \in hits : i <= j

\* the characters str.split() and str.strip() treat as whitespace
IsSpace(c) == c \in {" ", "\t", "\n", "\r", "\f"}

RECURSIVE LStrip(_)
LStrip(s) == IF s # <<>> /\ IsSpace(s[1]) THEN LStrip(Tail(s)) ELSE s

RECURSIVE RStrip(_)
RStrip(s) ==
    IF s # <<>> /\ IsSpace(s[Len(s)]) THEN RStrip(SubSeq(s, 1, Len(s) - 1)) ELSE s

\* s.strip()
Strip(s) == RStrip(LStrip(s))

\* s.split(sep) for a non-empty separator: always at least one piece
RECURSIVE SplitOn(_, _)
SplitOn(s, sep) ==
    LET i == Find(s, sep)
    IN  IF i = -1 THEN <<s>>
        ELSE <<Slice(s, 0, i)>> \o SplitOn(SliceFrom(s, i + Len(sep)), sep)

\* s.split(): the maximal runs of non-whitespace characters
RECURSIVE SplitWhitespace(_)
SplitWhitespace(s) ==
    LET t == LStrip(s)
        stops == {i \in 1..Len(t) : IsSpace(t[i])}
        n == IF stops = {} THEN Len(t) + 1
             ELSE CHOOSE i \in stops : \A j \in stops : i <= j
    IN  IF t = <<>> THEN <<>>
        ELSE <<SubSeq(t, 1, n - 1)>> \o SplitWhitespace(SubSeq(t, n, Len(t)))

\* " ".join(words)
RECURSIVE JoinSpace(_)
JoinSpace(words) ==
    IF words = <<>> THEN <<>>
    ELSE IF Len(words) = 1 THEN words[1]
    ELSE words[1] \o <<" ">> \o JoinSpace(Tail(words))

UpperAlpha == <<"A","B","C","D","E","F","G","H","I","J","K","L","M",
                "N","O","P","Q","R","S","T","U","V","W","X","Y","Z">>

LowerAlpha == <<"a","b","c","d","e","f","g","h","i","j","k","l","m",
                "n","o","p","q","r","s","t","u","v","w","x","y","z">>

LowerChar(c) ==
    IF \E i \in 1..Len(UpperAlpha) : UpperAlpha[i] = c
    THEN LowerAlpha[CHOOSE i \in 1..Len(UpperAlpha) : UpperAlpha[i] = c]
    ELSE c

\* s.lower() / s.upper()
Lower(s) == [i \in 1..Len(s) |-> LowerChar(s[i])]

UpperChar(c) ==
    IF \E i \in 1..Len(LowerAlpha) : LowerAlpha[i] = c
    THEN UpperAlpha[CHOOSE i \in 1..Len(LowerAlpha) : LowerAlpha[i] = c]
    ELSE c

Upper(s) == [i \in 1..Len(s) |-> UpperChar(s[i])]

DecimalDigits == <<"0","1","2","3","4","5","6","7","8","9">>

IsDecimalChar(c) == \E i \in 1..10 : DecimalDigits[i] = c

DigitVal(c) == (CHOOSE i \in 1..10 : DecimalDigits[i] = c) - 1

AllDecimal(s) == \A i \in 1..Len(s) : IsDecimalChar(s[i])

\* the value of a string of decimal digits
RECURSIVE DecVal(_)
DecVal(s) ==
    IF s = <<>> THEN 0
    ELSE 10 * DecVal(SubSeq(s, 1, Len(s) - 1)) + DigitVal(s[Len(s)])

\* str(n) for n >= 0
RECURSIVE DecStr(_)
DecStr(n) ==
    IF n < 10 THEN <<DecimalDigits[n + 1]>>
    ELSE DecStr(n \div 10) \o <<DecimalDigits[(n % 10) + 1]>>

RECURSIVE Pow10(_)
Pow10(k) == IF k = 0 THEN 1 ELSE 10 * Pow10(k - 1)

\* str.isdigit(): non-empty, every character a digit.  Of the latin1
\* characters, the decimal digits and the superscripts (0xB2, 0xB3, 0xB9).
IsDigit(s) == s # <<>> /\ \A i \in 1..Len(s) : (IsDecimalChar(s[i]) \/ s[i] = "^B2")

----------------------------------------------------------------------------
(* Header values.  One record shape for every Python type, so that values  *)
(* of different types can be compared:                                     *)
(*   int   n                     float  n * 10^e, n not divisible by 10    *)
(*   bool  n = 1 for True        str    s                                  *)
(* The floats nan and inf carry their name in s.  "None" is Python's None; *)
(* "ValueError" is a raised ValueError.                                    *)

IntV(k) == [t |-> "int", n |-> k, e |-> 0, s |-> <<>>]

RECURSIVE Normalise(_, _)
Normalise(m, x) ==
    IF m = 0 THEN <<0, 0>>
    ELSE IF m % 10 = 0 THEN Normalise(m \div 10, x + 1)
    ELSE <<m, x>>

FloatV(m, x) ==
    LET c == Normalise(m, x) IN [t |-> "float", n |-> c[1], e |-> c[2], s |-> <<>>]

\* the float digits * 10^x, for a string of decimal digits
RECURSIVE FloatOfDigits(_, _)
FloatOfDigits(digits, x) ==
    IF Len(digits) > 1 /\ digits[Len(digits)] = "0"
    THEN FloatOfDigits(SubSeq(digits, 1, Len(digits) - 1), x + 1)
    ELSE FloatV(DecVal(digits), x)

\* float("nan") and float("inf")
NanV == [t |-> "float", n |-> 0, e |-> 0, s |-> <<"n", "a", "n">>]

InfV == [t |-> "float", n |-> 0, e |-> 0, s |-> <<"i", "n", "f">>]

\* a float that is neither nan nor inf
IsFinite(v) == v.t = "float" /\ v.s = <<>>

BoolV(b) == [t |-> "bool", n |-> IF b THEN 1 ELSE 0, e |-> 0, s |-> <<>>]

StrV(str) == [t |-> "str", n |-> 0, e |-> 0, s |-> str]

NoneV == [t |-> "None", n |-> 0, e |-> 0, s |-> <<>>]

ValueErrorV == [t |-> "ValueError", n |-> 0, e |-> 0, s |-> <<>>]

\* int(s) for a str s: surrounding whitespace is allowed, the rest must be
\* decimal digits (signs and underscores are outside the model's alphabet).
PyIntOfStr(s) ==
    LET d == Strip(s)
    IN  IF d # <<>> /\ AllDecimal(d) THEN IntV(DecVal(d)) ELSE ValueErrorV

\* float(s) for a str s over letters, decimal digits and ".": the grammar
\*   digits [. [digits]] [e digits]   |   . digits [e digits]
\* and, in any case of the letters, "nan", "inf" and "infinity".  Signs and
\* "_" are outside the model's alphabet, and the bounded strings stay within
\* the range of a double.
PyFloatOfStr(s) ==
    LET es == {i \in 1..Len(s) : s[i] \in {"e", "E"}}
        ep == IF es = {} THEN Len(s) + 1 ELSE CHOOSE i \in es : \A j \in es : i <= j
        mant == SubSeq(s, 1, ep - 1)
        expo == SubSeq(s, ep + 1, Len(s))
        ds == {i \in 1..Len(mant) : mant[i] = "."}
        dp == IF ds = {} THEN Len(mant) + 1 ELSE CHOOSE i \in ds : \A j \in ds : i <= j
        ip == SubSeq(mant, 1, dp - 1)
        fp == SubSeq(mant, dp + 1, Len(mant))
        ok == /\ AllDecimal(ip) /\ AllDecimal(fp) /\ Len(ip) + Len(fp) >= 1
              /\ AllDecimal(expo)
              /\ (es # {} => expo # <<>>)
    IN  IF Lower(s) = <<"n", "a", "n">> THEN NanV
        ELSE IF Lower(s) \in {<<"i", "n", "f">>, <<"i", "n", "f", "i", "n", "i", "t", "y">>}
        THEN InfV
        ELSE IF ok THEN FloatOfDigits(ip \o fp, DecVal(expo) - Len(fp))
        ELSE ValueErrorV

\* PolarImage.auto_type
AutoType(string) ==
    IF IsDigit(string) THEN PyIntOfStr(string)
    ELSE IF PyFloatOfStr(string).t = "float" THEN PyFloatOfStr(string)
    ELSE IF Lower(string) \in {<<"t","r","u","e">>, <<"f","a","l","s","e">>}
         THEN BoolV(Lower(string) = <<"t","r","u","e">>)
    ELSE StrV(string)


----------------------------------------------------------------------------
(* The header dictionary: a function from keys (strings) to entries        *)
(* [value, description].  {} is the empty function.                        *)

EmptyDict == [k \in {} |-> NoneV]

\* d[k] = v
DictPut(d, k, v) == [x \in (DOMAIN d) \cup {k} |-> IF x = k THEN v ELSE d[x]]

Entry(v, d) == [value |-> v, description |-> d]

CRLF == <<"\r", "\n">>

EOH_MARKER == <<"E", "O", "H">>

CC == <<"C", "C">>

NA == <<"N", "/", "A">>

EOH_DESCRIPTION ==
    <<"E","n","d"," ","o","f"," ","H","e","a","d","e","r"," ",
      "c","h","a","r","a","c","t","e","r"," ","p","o","s","i","t","i","o","n">>

\* self.eoh while it is None
NoEoh == -1

\* PolarImage._process_file: (header_content, image_content), or found = FALSE
\* for (None, None).  self.eoh is assigned only when the marker is found.
ProcessFile(bytes, canRead) ==
    LET eoh_index == Find(bytes, EOH_MARKER)
        eoh_end_index == eoh_index + Find(SliceFrom(bytes, eoh_index), CRLF) + 2
    IN  IF ~canRead
        THEN [found |-> FALSE, eoh |-> NoEoh, header_content |-> <<>>,
              image_content |-> <<>>, log |-> {"open_failed"}]
        ELSE IF eoh_index = -1
        THEN [found |-> FALSE, eoh |-> NoEoh, header_content |-> <<>>,
              image_content |-> <<>>, log |-> {}]
        ELSE [found |-> TRUE, eoh |-> eoh_end_index,
              header_content |-> Slice(bytes, 0, eoh_end_index),
              image_content |-> SliceFrom(bytes, eoh_end_index), log |-> {}]

\* text.split(" ", maxsplit=1) followed by the unpacking into (key, value):
\* fewer than two pieces raise ValueError.
SplitKeyValue(text) ==
    LET sp == Find(text, <<" ">>)
    IN  IF sp = -1 THEN [ok |-> FALSE, key |-> <<>>, value |-> <<>>]
        ELSE [ok |-> TRUE, key |-> Slice(text, 0, sp), value |-> SliceFrom(text, sp + 1)]

\* One iteration of the loop of _process_header: what the line stores, if
\* anything.  A ValueError (from the unpacking or from auto_type) is caught
\* and the line stores nothing.
ProcessLine(line) ==
    LET text == JoinSpace(SplitWhitespace(line))
        kv == SplitKeyValue(text)
        cc_index == Find(kv.value, CC)
        new_value == IF cc_index # -1 THEN Strip(Slice(kv.value, 0, cc_index))
                     ELSE Strip(kv.value)
        description == IF cc_index # -1 THEN Strip(SliceFrom(kv.value, cc_index + 2))
                       ELSE NA
        typed == AutoType(new_value)
        nothing == [store |-> FALSE, key |-> <<>>, entry |-> Entry(NoneV, <<>>)]
    IN  IF StartsWith(line, CC) \/ StartsWith(line, <<"*", "*">>) THEN nothing
        ELSE IF ~kv.ok THEN nothing
        ELSE IF kv.value = <<>> THEN nothing
        ELSE IF typed.t = "ValueError" THEN nothing
        ELSE [store |-> TRUE, key |-> kv.key, entry |-> Entry(typed, description)]

\* a loop that ends at the first line that stores nothing
RECURSIVE ProcessLinesAbort(_, _)
ProcessLinesAbort(lines, header_dict) ==
    IF lines = <<>> THEN header_dict
    ELSE LET r == ProcessLine(lines[1])
         IN  IF r.store
             THEN ProcessLinesAbort(Tail(lines), DictPut(header_dict, r.key, r.entry))
             ELSE header_dict

\* the loop of _process_header over the lines
RECURSIVE ProcessLines(_, _)
ProcessLines(lines, header_dict) ==
    IF lines = <<>> THEN header_dict
    ELSE LET r == ProcessLine(lines[1])
         IN  ProcessLines(Tail(lines),
                          IF r.store THEN DictPut(header_dict, r.key, r.entry)
                          ELSE header_dict)

\* header_content.split(b"\r\n")[:-1]
HeaderLines(header_content) ==
    LET pieces == SplitOn(header_content, CRLF)
    IN  SubSeq(pieces, 1, Len(pieces) - 1)

\* PolarImage._process_header
ProcessHeader(header_content, eohValue) ==
    DictPut(ProcessLines(HeaderLines(header_content), EmptyDict),
            EOH_MARKER, Entry(IntV(eohValue), EOH_DESCRIPTION))

\* PolarImage.get
Get(hdr, attribute) ==
    IF DOMAIN hdr = {} THEN NoneV
    ELSE IF Upper(attribute) \in DOMAIN hdr THEN hdr[Upper(attribute)].value
    ELSE NoneV

\* what PolarImage.get logs
GetLog(hdr, attribute) ==
    IF DOMAIN hdr = {} THEN {"header_not_initialized"}
    ELSE IF Upper(attribute) \in DOMAIN hdr THEN {}
    ELSE {"attribute_not_found"}

DABIT == <<"D","A","B","I","T">>

FIFO == <<"F","I","F","O">>

SFREQ == <<"S","F","R","E","Q">>

SDRNG == <<"S","D","R","N","G">>

BO2RA == <<"B","O","2","R","A">>

\* Python's v == k for an int k: ints, floats and bools compare by value.
EqualsInt(v, k) ==
    \/ v.t \in {"int", "bool"} /\ v.n = k
    \/ IsFinite(v) /\ v.e >= 0 /\ v.n * Pow10(v.e) = k

\* int(v): truncates a float, raises TypeError for None, ValueError for nan
\* and for a str that is no integer literal, and OverflowError for inf.
IntOf(v) ==
    IF v.t \in {"int", "bool"} THEN [ok |-> TRUE, n |-> v.n]
    ELSE IF IsFinite(v)
    THEN [ok |-> TRUE,
          n |-> IF v.e >= 0 THEN v.n * Pow10(v.e) ELSE v.n \div Pow10(-v.e)]
    ELSE IF v.t = "str" /\ PyIntOfStr(v.s).t = "int"
    THEN [ok |-> TRUE, n |-> PyIntOfStr(v.s).n]
    ELSE [ok |-> FALSE, n |-> 0]

\* chars_describing_image_bytes of get_image_size
SizeChars(hdr) == IF EqualsInt(Get(hdr, DABIT), 12) THEN 10 ELSE 6

\* PolarImage.get_image_size
GetImageSize(hdr, image_content) ==
    LET parsed == PyIntOfStr(Slice(image_content, 0, SizeChars(hdr)))
    IN  IF parsed.t = "int"
        THEN [size |-> parsed.n, log |-> GetLog(hdr, DABIT)]
        ELSE [size |-> 0, log |-> GetLog(hdr, DABIT) \cup {"size_value_error"}]

\* chars_describing_image_bytes of _process_image
DataOffset == 10

\* PolarImage._process_image
ProcessImage(hdr, image_content) ==
    LET sz == GetImageSize(hdr, image_content)
    IN  [image_size |-> sz.size,
         image_data |-> SliceFrom(image_content, DataOffset),
         log |-> sz.log]

----------------------------------------------------------------------------
(* Decoding the sample matrix.                                             *)

\* the printable ASCII characters, from code 32 to code 126
Ascii ==
    <<" ","!","\"","#","$","%","&","'","(",")","*","+",",","-",".","/",
      "0","1","2","3","4","5","6","7","8","9",":",";","<","=",">","?",
      "@","A","B","C","D","E","F","G","H","I","J","K","L","M","N","O",
      "P","Q","R","S","T","U","V","W","X","Y","Z","[","\\","]","^","_",
      "^60","a","b","c","d","e","f","g","h","i","j","k","l","m","n","o",
      "p","q","r","s","t","u","v","w","x","y","z","{","|","}","~">>

\* the value of a byte, as np.frombuffer reads it
Ord(c) ==
    IF c = "\t" THEN 9
    ELSE IF c = "\n" THEN 10
    ELSE IF c = "\f" THEN 12
    ELSE IF c = "\r" THEN 13
    ELSE IF c = "^B2" THEN 178
    ELSE 31 + (CHOOSE i \in 1..Len(Ascii) : Ascii[i] = c)

\* np.array([])
EmptyArray == <<>>

\* the 8-bit decoding without the clearing of the first column
Decode8Raw(data, rays, n) ==
    [r \in 1..rays |-> [c \in 1..n |-> Ord(data[(r - 1) * n + c])]]

\* np.frombuffer(image_data, dtype=np.uint8).reshape((rays, n)), then
\* image_array[:, 0] = 0
Decode8(data, rays, n) ==
    [r \in 1..rays |->
        [c \in 1..n |-> IF c = 1 THEN 0 ELSE Ord(data[(r - 1) * n + c])]]

\* np.frombuffer(image_data, dtype=np.uint16).reshape((rays, n)), then
\* image_array &= 0x0FFF.  uint16 is read in the byte order of the machine,
\* little-endian on the platforms numpy is built for.
Decode12(data, rays, n) ==
    [r \in 1..rays |->
        [c \in 1..n |->
            LET i == 2 * ((r - 1) * n + (c - 1))
            IN  (Ord(data[i + 1]) + 256 * Ord(data[i + 2])) % 4096]]

\* a decoding that reads every depth other than 12 as 8-bit
GetImageArrayAnyDepth(hdr, size, data) ==
    LET fifo == IntOf(Get(hdr, FIFO))
        dabit == IntOf(Get(hdr, DABIT))
        gets == GetLog(hdr, FIFO) \cup (IF fifo.ok THEN GetLog(hdr, DABIT) ELSE {})
        failed == [array |-> EmptyArray, log |-> gets \cup {"array_error"}]
        n == fifo.n
    IN  IF ~fifo.ok \/ ~dabit.ok THEN failed
        ELSE IF dabit.n = 12
        THEN IF n = 0 THEN failed
             ELSE IF Len(data) % 2 # 0 THEN failed
             ELSE IF (size \div (2 * n)) * n # Len(data) \div 2 THEN failed
             ELSE [array |-> Decode12(data, size \div (2 * n), n),
                   log |-> gets \cup {"array_created"}]
        ELSE IF n = 0 THEN failed
             ELSE IF (size \div n) * n # Len(data) THEN failed
             ELSE [array |-> Decode8(data, size \div n, n),
                   log |-> gets \cup {"array_created"}]

\* PolarImage.get_image_array
GetImageArray(hdr, size, data) ==
    LET fifo == IntOf(Get(hdr, FIFO))
        dabit == IntOf(Get(hdr, DABIT))
        gets == GetLog(hdr, FIFO) \cup (IF fifo.ok THEN GetLog(hdr, DABIT) ELSE {})
        failed == [array |-> EmptyArray, log |-> gets \cup {"array_error"}]
        n == fifo.n
    IN  IF ~fifo.ok \/ ~dabit.ok THEN failed
        ELSE IF dabit.n = 12
        THEN IF n = 0 THEN failed
             ELSE IF Len(data) % 2 # 0 THEN failed
             ELSE IF (size \div (2 * n)) * n # Len(data) \div 2 THEN failed
             ELSE [array |-> Decode12(data, size \div (2 * n), n),
                   log |-> gets \cup {"array_created"}]
        ELSE IF dabit.n = 8
        THEN IF n = 0 THEN failed
             ELSE IF (size \div n) * n # Len(data) THEN failed
             ELSE [array |-> Decode8(data, size \div n, n),
                   log |-> gets \cup {"array_created"}]
        ELSE [array |-> EmptyArray, log |-> gets \cup {"unsupported_dabit"}]

\* the session fields when __init__ returns before the header is parsed
Blank(pf) ==
    [header |-> EmptyDict, eoh |-> pf.eoh, image_size |-> 0, image_data |-> <<>>,
     has_image_array |-> FALSE, image_array |-> EmptyArray,
     calls |-> {"_process_file"}, log |-> pf.log \cup {"no_header"}]

\* __init__ from "if self.image_data:" on
CtorArray(hdr, eohValue, pim, gia) ==
    [header |-> hdr, eoh |-> eohValue, image_size |-> pim.image_size,
     image_data |-> pim.image_data,
     has_image_array |-> pim.image_data # <<>>,
     image_array |-> IF pim.image_data # <<>> THEN gia.array ELSE EmptyArray,
     calls |-> {"_process_file", "_process_header", "_process_image", "get_image_size"}
               \cup (IF pim.image_data # <<>> THEN {"get_image_array"} ELSE {}),
     log |-> {"header_created"} \cup pim.log
             \cup (IF pim.image_data # <<>> THEN gia.log \cup {"processed"}
                   ELSE {"no_image_data"})]

\* __init__ from "if image_content:" on
CtorImage(hdr, eohValue, image_content, pim) ==
    IF image_content = <<>>
    THEN [header |-> hdr, eoh |-> eohValue, image_size |-> 0, image_data |-> <<>>,
          has_image_array |-> FALSE, image_array |-> EmptyArray,
          calls |-> {"_process_file", "_process_header"},
          log |-> {"header_created", "no_image_content"}]
    ELSE CtorArray(hdr, eohValue, pim,
                   GetImageArray(hdr, pim.image_size, pim.image_data))

\* __init__ from "if header_content:" on
CtorHeader(pf, hdr) ==
    CtorImage(hdr, pf.eoh, pf.image_content, ProcessImage(hdr, pf.image_content))

\* a constructor that parses a header whether or not the marker was found
CtorFileAlways(pf) == CtorHeader(pf, ProcessHeader(pf.header_content, pf.eoh))

\* __init__ after _process_file returned pf
CtorFile(pf) ==
    IF ~pf.found THEN Blank(pf)
    ELSE CtorHeader(pf, ProcessHeader(pf.header_content, pf.eoh))

\* PolarImage.__init__: the fields of the session it leaves
Ctor(bytes, canRead) == CtorFile(ProcessFile(bytes, canRead))

----------------------------------------------------------------------------
(* Rendering.                                                              *)

\* ceil(a / b) for a >= 0, b > 0
CeilDiv(a, b) == (a + b - 1) \div b

\* the blanking width with the quotient rounded down
PixelsToOmitFloor(sampling_frequency, sampling_delay_range) ==
    IF sampling_frequency = 40
    THEN ((sampling_delay_range * 4) \div 15) * 2
    ELSE ((sampling_delay_range * sampling_frequency) \div 150) * 2

\* pixels_to_omit of render, from the truncated header values.  3.75 is
\* 15/4 and c / (2 * f * 1e6) is 150 / f; the quotients are computed in
\* doubles, which agree with the exact quotients taken here whenever
\* 150 / f is a binary fraction (f = 20, 32, 40, ...), the values the
\* model draws SFREQ from.
PixelsToOmit(sampling_frequency, sampling_delay_range) ==
    IF sampling_frequency = 40
    THEN CeilDiv(sampling_delay_range * 4, 15) * 2
    ELSE CeilDiv(sampling_delay_range * sampling_frequency, 150) * 2

\* HIGHEST_BRIGHTNESS of render
HighestBrightness(hdr) == IF EqualsInt(Get(hdr, DABIT), 12) THEN 4095 ELSE 255

\* np.concatenate((np.full((rows, k), fill), array), axis=1)
PrependColumns(array, k, fill) ==
    [r \in 1..Len(array) |-> [c \in 1..k |-> fill] \o array[r]]

\* int(2 * self.get("BO2RA")): 2 * None raises TypeError, 2 * str repeats
\* the string, which int() then parses
Bo2raOk(v) ==
    \/ v.t \in {"int", "bool"}
    \/ IsFinite(v)
    \/ v.t = "str" /\ PyIntOfStr(v.s \o v.s).t = "int"

\* render from the concatenation on: pix columns are prepended, and the
\* orientation raises afterwards when BO2RA cannot be doubled and truncated.
\* The plotting calls in between are taken not to raise.
RenderColumns(hdr, array, orient, pix, lg) ==
    [raised |-> orient /\ ~Bo2raOk(Get(hdr, BO2RA)),
     computed |-> TRUE,
     pixels |-> pix,
     array |-> PrependColumns(array, pix, HighestBrightness(hdr)),
     log |-> lg \cup GetLog(hdr, DABIT) \cup (IF orient THEN GetLog(hdr, BO2RA) ELSE {})]

\* render after sampling_frequency and sampling_delay_range were read
RenderFrom(hdr, hasArray, array, orient, sf, sd, lg) ==
    IF ~sf.ok THEN [raised |-> TRUE, computed |-> FALSE, pixels |-> 0,
                    array |-> array, log |-> lg]
    ELSE IF ~sd.ok \/ sf.n = 0
    THEN [raised |-> TRUE, computed |-> FALSE, pixels |-> 0,
          array |-> array, log |-> lg \cup GetLog(hdr, SDRNG)]
    ELSE IF ~hasArray \/ array = EmptyArray
    THEN [raised |-> TRUE, computed |-> TRUE, pixels |-> PixelsToOmit(sf.n, sd.n),
          array |-> array, log |-> lg \cup GetLog(hdr, SDRNG) \cup GetLog(hdr, DABIT)]
    ELSE RenderColumns(hdr, array, orient, PixelsToOmit(sf.n, sd.n),
                       lg \cup GetLog(hdr, SDRNG))

\* PolarImage.render: whether it raises, pixels_to_omit when it got that far
\* (computed), self.image_array as it leaves it, and what its get calls log
Render(hdr, hasArray, array, orient) ==
    RenderFrom(hdr, hasArray, array, orient,
               IntOf(Get(hdr, SFREQ)), IntOf(Get(hdr, SDRNG)), GetLog(hdr, SFREQ))

----------------------------------------------------------------------------
(* The metadata text: json.dumps(self.header, indent=4) and json.loads.    *)
(* The scalars (keys, values, descriptions) are modelled character by      *)
(* character; the layout of the object around them (braces, commas, the    *)
(* indentation, the member names "value" and "description") is kept as a   *)
(* set of members <<key text, value text, description text>>.              *)

HexDigits == <<"0","1","2","3","4","5","6","7","8","9","a","b","c","d","e","f">>

\* chr(code) for the codes of the model's characters
Chr(code) ==
    IF code = 9 THEN "\t"
    ELSE IF code = 10 THEN "\n"
    ELSE IF code = 12 THEN "\f"
    ELSE IF code = 13 THEN "\r"
    ELSE IF code = 178 THEN "^B2"
    ELSE Ascii[code - 31]

\* json's escape of one character under ensure_ascii=True
JsonEscapeChar(c) ==
    IF c = "\"" THEN <<"\\", "\"">>
    ELSE IF c = "\\" THEN <<"\\", "\\">>
    ELSE IF c = "\n" THEN <<"\\", "n">>
    ELSE IF c = "\r" THEN <<"\\", "r">>
    ELSE IF c = "\t" THEN <<"\\", "t">>
    ELSE IF c = "\f" THEN <<"\\", "f">>
    ELSE IF Ord(c) > 126
    THEN <<"\\", "u", "0", "0", HexDigits[(Ord(c) \div 16) + 1], HexDigits[(Ord(c) % 16) + 1]>>
    ELSE <<c>>

RECURSIVE JsonEscape(_)
JsonEscape(str) ==
    IF str = <<>> THEN <<>> ELSE JsonEscapeChar(str[1]) \o JsonEscape(Tail(str))

\* json.dumps of a str
JsonString(str) == <<"\"">> \o JsonEscape(str) \o <<"\"">>

HexVal(c) == (CHOOSE i \in 1..16 : HexDigits[i] = LowerChar(c)) - 1

\* the body of a JSON string literal, unescaped as json.loads does
RECURSIVE JsonUnescape(_)
JsonUnescape(body) ==
    IF body = <<>> THEN <<>>
    ELSE IF body[1] # "\\" THEN <<body[1]>> \o JsonUnescape(Tail(body))
    ELSE IF body[2] = "u"
    THEN <<Chr(16 * (16 * (16 * HexVal(body[3]) + HexVal(body[4])) + HexVal(body[5]))
               + HexVal(body[6]))>>
         \o JsonUnescape(SubSeq(body, 7, Len(body)))
    ELSE <<CASE body[2] = "n" -> "\n"
             [] body[2] = "r" -> "\r"
             [] body[2] = "t" -> "\t"
             [] body[2] = "f" -> "\f"
             [] OTHER -> body[2]>>
         \o JsonUnescape(SubSeq(body, 3, Len(body)))

Zeros(k) == [i \in 1..k |-> "0"]

\* float.__repr__, which json.dumps writes a float with: the shortest digits
\* that read back as the same double, in fixed notation when the decimal
\* exponent is in -4..15 and in exponent notation otherwise.  json.dumps
\* writes nan as NaN and inf as Infinity.
FloatRepr(v) ==
    LET d == DecStr(v.n)
        len == Len(d)
        dexp == v.e + len - 1
        ex == IF dexp < 0 THEN -dexp ELSE dexp
        exs == IF ex < 10 THEN <<"0">> \o DecStr(ex) ELSE DecStr(ex)
    IN  IF v = NanV THEN <<"N", "a", "N">>
        ELSE IF v = InfV THEN <<"I", "n", "f", "i", "n", "i", "t", "y">>
        ELSE IF v.n = 0 THEN <<"0", ".", "0">>
        ELSE IF dexp < -4 \/ dexp >= 16
        THEN <<d[1]>> \o (IF len > 1 THEN <<".">> \o Tail(d) ELSE <<>>)
             \o <<"e", IF dexp < 0 THEN "-" ELSE "+">> \o exs
        ELSE IF v.e >= 0 THEN d \o Zeros(v.e) \o <<".", "0">>
        ELSE IF len > -v.e
        THEN SubSeq(d, 1, len + v.e) \o <<".">> \o SubSeq(d, len + v.e + 1, len)
        ELSE <<"0", ".">> \o Zeros(-v.e - len) \o d

TRUE_TEXT == <<"t", "r", "u", "e">>

FALSE_TEXT == <<"f", "a", "l", "s", "e">>

NULL_TEXT == <<"n", "u", "l", "l">>

\* a header value written as a JSON string whatever its type
JsonDumpsValueQuoted(v) ==
    IF v.t = "int" THEN JsonString(DecStr(v.n))
    ELSE IF v.t = "float" THEN JsonString(FloatRepr(v))
    ELSE IF v.t = "bool" THEN JsonString(IF v.n = 1 THEN TRUE_TEXT ELSE FALSE_TEXT)
    ELSE JsonString(v.s)

\* json.dumps of a header value
JsonDumpsValue(v) ==
    IF v.t = "int" THEN DecStr(v.n)
    ELSE IF v.t = "float" THEN FloatRepr(v)
    ELSE IF v.t = "bool" THEN (IF v.n = 1 THEN TRUE_TEXT ELSE FALSE_TEXT)
    ELSE IF v.t = "str" THEN JsonString(v.s)
    ELSE NULL_TEXT

\* json.loads of a JSON number: int [frac] [exp]; a float when a fraction or
\* an exponent is present, an int otherwise
JsonNumber(text) ==
    LET es == {i \in 1..Len(text) : text[i] \in {"e", "E"}}
        ep == IF es = {} THEN Len(text) + 1 ELSE CHOOSE i \in es : \A j \in es : i <= j
        mant == SubSeq(text, 1, ep - 1)
        sexp == SubSeq(text, ep + 1, Len(text))
        neg == sexp # <<>> /\ sexp[1] = "-"
        expo == IF sexp # <<>> /\ sexp[1] \in {"+", "-"} THEN Tail(sexp) ELSE sexp
        ds == {i \in 1..Len(mant) : mant[i] = "."}
        dp == IF ds = {} THEN Len(mant) + 1 ELSE CHOOSE i \in ds : \A j \in ds : i <= j
        ip == SubSeq(mant, 1, dp - 1)
        fp == SubSeq(mant, dp + 1, Len(mant))
        ok == /\ ip # <<>> /\ AllDecimal(ip) /\ (Len(ip) > 1 => ip[1] # "0")
              /\ AllDecimal(fp) /\ (ds # {} => fp # <<>>)
              /\ AllDecimal(expo) /\ (es # {} => expo # <<>>)
        x == IF neg THEN -DecVal(expo) ELSE DecVal(expo)
    IN  IF ~ok THEN ValueErrorV
        ELSE IF ds = {} /\ es = {} THEN IntV(DecVal(ip))
        ELSE FloatOfDigits(ip \o fp, x - Len(fp))

\* json.loads of a scalar
JsonLoadsValue(text) ==
    IF text # <<>> /\ text[1] = "\"" THEN StrV(JsonUnescape(SubSeq(text, 2, Len(text) - 1)))
    ELSE IF text = TRUE_TEXT THEN BoolV(TRUE)
    ELSE IF text = FALSE_TEXT THEN BoolV(FALSE)
    ELSE IF text = NULL_TEXT THEN NoneV
    ELSE IF text = <<"N", "a", "N">> THEN NanV
    ELSE IF text = <<"I", "n", "f", "i", "n", "i", "t", "y">> THEN InfV
    ELSE JsonNumber(text)

\* json.dumps(self.header, indent=4)
JsonDumps(hdr) ==
    {<<JsonString(k), JsonDumpsValue(hdr[k].value), JsonString(hdr[k].description)>> :
        k \in DOMAIN hdr}

\* json.loads(img.text["json_data"])
JsonLoads(text) ==
    LET KeyOf(m) == JsonUnescape(SubSeq(m[1], 2, Len(m[1]) - 1))
    IN  [k \in {KeyOf(m) : m \in text} |->
            LET m == CHOOSE m \in text : KeyOf(m) = k
            IN  Entry(JsonLoadsValue(m[2]), JsonUnescape(SubSeq(m[3], 2, Len(m[3]) - 1)))]

----------------------------------------------------------------------------
(* The operations.                                                         *)

\* the render calls a session may receive
MaxRenders == 2

\* the session takes the fields c
Assign(c) ==
    /\ header' = c.header
    /\ eoh' = c.eoh
    /\ image_size' = c.image_size
    /\ image_data' = c.image_data
    /\ has_image_array' = c.has_image_array
    /\ image_array' = c.image_array
    /\ calls' = c.calls
    /\ log' = c.log

\* PolarImage(file_path)
Construct ==
    /\ ~constructed
    /\ Assign(Ctor(content, readable))
    /\ constructed' = TRUE
    /\ UNCHANGED <<content, readable, renders, last_render, pixels_to_omit,
                   interpolations, last_interpolate, has_png, png_text, loaded,
                   data_dict, at_in, at_out>>

\* the effect on the session of a call of self.render that did r
RenderEffect(r) ==
    /\ image_array' = r.array
    /\ pixels_to_omit' = IF r.computed THEN r.pixels ELSE pixels_to_omit
    /\ last_render' = IF r.raised THEN "raised" ELSE "ok"
    /\ log' = log \cup r.log
    /\ renders' = renders + 1

\* polar_image.render(orient, toggle_direction, cmap)
RenderCall ==
    /\ constructed /\ renders < MaxRenders
    /\ \E orient \in BOOLEAN, toggle_direction \in BOOLEAN :
          RenderEffect(Render(header, has_image_array, image_array, orient))
    /\ UNCHANGED <<content, readable, constructed, header, eoh, image_size, image_data,
                   has_image_array, calls, interpolations, last_interpolate,
                   has_png, png_text, loaded, data_dict, at_in, at_out>>

\* polar_image.saveto(output_path): render(orient=True, toggle_direction=False)
\* and savefig
SaveTo ==
    /\ constructed /\ renders < MaxRenders
    /\ RenderEffect(Render(header, has_image_array, image_array, TRUE))
    /\ UNCHANGED <<content, readable, constructed, header, eoh, image_size, image_data,
                   has_image_array, calls, interpolations, last_interpolate,
                   has_png, png_text, loaded, data_dict, at_in, at_out>>

\* what save_with_metadata does after its render call did r
EmbedEffect(r) ==
    /\ RenderEffect(r)
    /\ IF r.raised THEN UNCHANGED <<has_png, png_text>>
       ELSE has_png' = TRUE /\ png_text' = JsonDumps(header)

\* polar_image.save_with_metadata(output_path): the same render, then the
\* header is written into the raster's "json_data" text field
SaveWithMetadata ==
    /\ constructed /\ renders < MaxRenders
    /\ EmbedEffect(Render(header, has_image_array, image_array, TRUE))
    /\ UNCHANGED <<content, readable, constructed, header, eoh, image_size, image_data,
                   has_image_array, calls, interpolations, last_interpolate,
                   loaded, data_dict, at_in, at_out>>

\* PolarImageInspector.open_image on the .png that save_with_metadata wrote
OpenImagePng ==
    /\ has_png /\ ~loaded
    /\ data_dict' = JsonLoads(png_text)
    /\ loaded' = TRUE
    /\ UNCHANGED <<content, readable, constructed, header, eoh, image_size, image_data,
                   has_image_array, image_array, calls, log, renders, last_render,
                   pixels_to_omit, interpolations, last_interpolate, has_png,
                   png_text, at_in, at_out>>

Next == Construct \/ RenderCall \/ SaveTo \/ SaveWithMetadata \/ OpenImagePng

\* a call of auto_type on its own
ApplyAutoType ==
    /\ at_out = NoneV
    /\ at_out' = AutoType(at_in)
    /\ UNCHANGED <<at_in, sessionVars>>

----------------------------------------------------------------------------
(* The inputs.                                                             *)

\* the state before PolarImage(file_path), for a file holding bytes
Fresh(bytes, canRead) ==
    /\ content = bytes
    /\ readable = canRead
    /\ constructed = FALSE
    /\ header = EmptyDict
    /\ eoh = NoEoh
    /\ image_size = 0
    /\ image_data = <<>>
    /\ has_image_array = FALSE
    /\ image_array = EmptyArray
    /\ calls = {}
    /\ log = {}
    /\ renders = 0
    /\ last_render = "none"
    /\ pixels_to_omit = -1
    /\ interpolations = 0
    /\ last_interpolate = "none"
    /\ has_png = FALSE
    /\ png_text = {}
    /\ loaded = FALSE
    /\ data_dict = EmptyDict

\* a header line "KEY text", or nothing when text is empty
Line(key, text) == IF text = <<>> THEN <<>> ELSE key \o <<" ">> \o text \o CRLF

\* the decimal digits of k, zero-padded to width w
Padded(k, w) == Zeros(w - Len(DecStr(k))) \o DecStr(k)

PayloadBytes == <<"A", "0", "~">>

\* a payload of the given length
Payload(p, len) == [i \in 1..len |-> PayloadBytes[((i + p) % 3) + 1]]

MaxFifo == 2

MaxSize == 6

MaxPayload == 6

NonNumeric == <<"x">>

DabitTexts == {<<>>, <<"4">>, <<"8">>, <<"1", "2">>, NonNumeric}

FifoTexts == {<<>>, NonNumeric} \cup {DecStr(k) : k \in 0..MaxFifo}

SizePrefixes ==
    {Padded(k, w) : k \in 0..MaxSize, w \in {6, 10}} \cup {NonNumeric \o Zeros(9)}

Payloads == {Payload(p, len) : p \in 0..1, len \in 0..MaxPayload}

\* a capture: header lines, the EOH line, the size prefix, the payload
Capture(dabit, fifo, sfreq, sdrng, bo2ra, marker, prefix, payload) ==
    Line(DABIT, dabit) \o Line(FIFO, fifo) \o Line(SFREQ, sfreq)
    \o Line(SDRNG, sdrng) \o Line(BO2RA, bo2ra) \o marker \o prefix \o payload

\* no auto_type call of its own is under way
NoAutoTypeCall == at_in = <<>> /\ at_out = NoneV

\* the captures the decoding claims are checked on: every header, size
\* prefix and payload behind the EOH line, and for every header a file
\* without the marker, a file that cannot be read, and files whose marker
\* has no line terminator after it
Init ==
    /\ NoAutoTypeCall
    /\ \E dabit \in DabitTexts, fifo \in FifoTexts :
          \/ \E prefix \in SizePrefixes, payload \in Payloads :
                Fresh(Capture(dabit, fifo, <<"4", "0">>, <<"2">>, <<"0">>,
                              EOH_MARKER \o CRLF, prefix, payload), TRUE)
          \/ \E canRead \in BOOLEAN :
                Fresh(Capture(dabit, fifo, <<"4", "0">>, <<"2">>, <<"0">>,
                              IF canRead THEN <<>> ELSE EOH_MARKER \o CRLF,
                              Padded(2, 10), Payload(0, 4)), canRead)
          \/ \E len \in {0, 4} :
                Fresh(Capture(dabit, fifo, <<"4", "0">>, <<"2">>, <<"0">>,
                              EOH_MARKER, Zeros(len), Payload(0, len)), TRUE)

Spec == Init /\ [][Next]_vars

----------------------------------------------------------------------------
(* The claims about decoding, checked under Spec.                          *)

\* int(self.get("DABIT")) and int(self.get("FIFO")) of the session
Dabit == IntOf(Get(header, DABIT))

Fifo == IntOf(Get(header, FIFO))

Decoded == constructed /\ "get_image_array" \in calls

\* the session as the constructor left it: no render or interpolate call
\* has touched it
AsConstructed == constructed /\ renders = 0 /\ interpolations = 0

\* the image region of the file: everything after the header region
ImageRegion == SliceFrom(content, eoh)

IsMatrix(m, rays, n, top) ==
    /\ Len(m) = rays
    /\ \A r \in 1..rays : Len(m[r]) = n /\ \A c \in 1..n : m[r][c] \in 0..top

\* C3: given DABIT=12 and FIFO=N, a declared imageByteCount that is no
\* multiple of 2N makes decoding fail; otherwise (the payload holding the
\* declared bytes) the matrix has imageByteCount/(2N) rays of N samples, each
\* in [0,4095].
C3_ExactDivisionOrFail ==
    (AsConstructed /\ Decoded /\ Dabit.ok /\ Dabit.n = 12 /\ Fifo.ok /\ Fifo.n > 0) =>
        IF image_size % (2 * Fifo.n) # 0
        THEN image_array = EmptyArray
        ELSE Len(image_data) = image_size =>
                IsMatrix(image_array, image_size \div (2 * Fifo.n), Fifo.n, 4095)

\* C4: the payload is the image region after the size prefix (6 bytes, 10
\* when DABIT is 12), and a well-formed 8-bit capture (6-digit prefix, then
\* exactly imageByteCount bytes, a multiple of FIFO) decodes to a non-empty
\* matrix of imageByteCount/FIFO rays whose columns after the first hold the
\* payload bytes.
C4_PayloadAfterPrefix ==
    /\ (constructed /\ "_process_image" \in calls) =>
            image_data = SliceFrom(ImageRegion, SizeChars(header))
    /\ (AsConstructed /\ "_process_image" \in calls /\ Dabit.ok /\ Dabit.n = 8
        /\ Fifo.ok /\ Fifo.n > 0 /\ image_size > 0 /\ image_size % Fifo.n = 0
        /\ Len(ImageRegion) = 6 + image_size) =>
            /\ has_image_array
            /\ IsMatrix(image_array, image_size \div Fifo.n, Fifo.n, 255)
            /\ \A r \in 1..Len(image_array) : \A c \in 2..Fifo.n :
                  image_array[r][c] = Ord(ImageRegion[6 + (r - 1) * Fifo.n + c])

\* C5: given DABIT=8, whenever decoding produces a matrix, column 0 of every
\* ray is 0 and every other column holds its byte of the image data unmasked.
C5_FirstColumnZero ==
    (AsConstructed /\ Decoded /\ Dabit.ok /\ Dabit.n = 8 /\ image_array # EmptyArray) =>
        \A r \in 1..Len(image_array) :
            /\ image_array[r][1] = 0
            /\ \A c \in 2..Len(image_array[r]) :
                  image_array[r][c] = Ord(image_data[(r - 1) * Len(image_array[r]) + c])

\* an 8-bit matrix with a second column, decoded from non-zero bytes
C5_Witness ==
    /\ AsConstructed /\ Decoded /\ Dabit.ok /\ Dabit.n = 8
    /\ image_array # EmptyArray
    /\ Len(image_array[1]) >= 2
    /\ image_array[1][2] > 0
    /\ Ord(image_data[1]) > 0

\* C8: without an "EOH" marker in the file the session ends with an empty
\* header, and neither the image size is parsed nor the matrix decoded.
C8_NoMarkerNoHeader ==
    (constructed /\ Find(content, EOH_MARKER) = -1) =>
        /\ header = EmptyDict
        /\ calls \cap {"_process_header", "_process_image", "get_image_size",
                       "get_image_array"} = {}
        /\ image_size = 0
        /\ ~has_image_array

\* a readable file with header lines and an image region but no marker
C8_Witness ==
    /\ constructed /\ readable
    /\ Find(content, EOH_MARKER) = -1
    /\ Find(content, FIFO) # -1
    /\ Len(content) > 20

\* C9: for every DABIT other than 8 and 12 decoding reports the
\* unsupported-format error and the matrix is empty.
C9_UnsupportedAlwaysReported ==
    (Decoded /\ Dabit.ok /\ Dabit.n \notin {8, 12}) =>
        "unsupported_dabit" \in log /\ image_array = EmptyArray

\* C9, as the code has it: whenever decoding runs with a DABIT that is not 8 or 12 the
\* matrix is empty, and the unsupported-format error is reported when FIFO
\* converts to an integer (FIFO is read first, and its failure is reported
\* instead).
C9_UnsupportedEmptyMatrix ==
    Decoded =>
        /\ (~Dabit.ok \/ Dabit.n \notin {8, 12}) => image_array = EmptyArray
        /\ (Dabit.ok /\ Dabit.n \notin {8, 12}) =>
              ("unsupported_dabit" \in log <=> Fifo.ok)

\* DABIT 4 with a numeric FIFO and image data at hand
C9_Witness ==
    /\ Decoded /\ Dabit.ok /\ Dabit.n = 4 /\ Fifo.ok /\ Fifo.n > 0
    /\ Len(image_data) >= 2 * Fifo.n
    /\ "unsupported_dabit" \in log
    /\ image_array = EmptyArray

\* C10: when DABIT or FIFO is absent or not numeric, decoding fails and no
\* default stands in for the missing key: with DABIT absent no width of the
\* size prefix is chosen and no image size is parsed.
C10_NoDefaultForMissingKey ==
    /\ (Decoded /\ (~Dabit.ok \/ ~Fifo.ok)) => image_array = EmptyArray
    /\ (constructed /\ "_process_header" \in calls /\ DABIT \notin DOMAIN header) =>
            image_size = 0

----------------------------------------------------------------------------
(* auto_type on its own, checked under SpecAutoType.                       *)

MaxStrLen == 4

AutoAlphabet == {"0", "1", ".", "e", "t", "r", "u", "T", "^B2"}

AutoStrings ==
    UNION {[1..len -> AutoAlphabet] : len \in 0..MaxStrLen}
    \cup {<<"n", "a", "n">>, <<"N", "a", "N">>, <<"i", "n", "f">>,
          <<"I", "n", "f", "i", "n", "i", "t", "y">>, <<"F", "A", "L", "S", "E">>,
          <<"f", "a", "l", "s", "e", "0">>}

InitAutoType ==
    /\ Fresh(<<>>, TRUE)
    /\ at_in \in AutoStrings
    /\ at_out = NoneV

SpecAutoType == InitAutoType /\ [][ApplyAutoType]_vars

\* the coercion as C1 orders it: an int for a string of decimal digits, else
\* a float if it parses as one, else a bool for "true"/"false" in any case,
\* else the string unchanged
ClaimedAutoType(string) ==
    IF string # <<>> /\ AllDecimal(string) THEN IntV(DecVal(string))
    ELSE IF PyFloatOfStr(string).t = "float" THEN PyFloatOfStr(string)
    ELSE IF Lower(string) = TRUE_TEXT THEN BoolV(TRUE)
    ELSE IF Lower(string) = FALSE_TEXT THEN BoolV(FALSE)
    ELSE StrV(string)

\* C1: auto_type returns an int for a string of decimal digits, else a float
\* if the string parses as one, else a bool for "true"/"false", else the
\* string unchanged; an all-digit string never becomes a float or a string.
C1_CoercionOrder == (at_out # NoneV) => at_out = ClaimedAutoType(at_in)

----------------------------------------------------------------------------
(* Rendering, checked under SpecRender: sessions that decode to one ray of *)
(* one sample, over the header values render reads.                        *)

MaxSdrng == 16

HALF == <<".", "5">>

\* 150 / SFREQ is a binary fraction for 20, 32 and 40
SfreqTexts == {<<>>, NonNumeric, <<"0">>, <<"2", "0">>, <<"3", "2">>, <<"4", "0">>,
               <<"4", "0">> \o HALF}

SdrngTexts ==
    {<<>>} \cup {DecStr(k) : k \in 0..MaxSdrng} \cup {DecStr(k) \o HALF : k \in 0..MaxSdrng}

Bo2raTexts == {<<>>, <<"0">>, <<"4", "5">>}

InitRender ==
    /\ NoAutoTypeCall
    /\ \E sfreq \in SfreqTexts, sdrng \in SdrngTexts, bo2ra \in Bo2raTexts,
          deep \in BOOLEAN :
          Fresh(Capture(IF deep THEN <<"1", "2">> ELSE <<"8">>, <<"1">>,
                        sfreq, sdrng, bo2ra, EOH_MARKER \o CRLF,
                        IF deep THEN Padded(2, 10) ELSE Padded(1, 6),
                        IF deep THEN Payload(0, 2) ELSE Payload(0, 5)),
                TRUE)

SpecRender == InitRender /\ [][Next]_vars

\* a header value v as the fraction Num(v) / Den(v)
Num(v) == IF IsFinite(v) /\ v.e > 0 THEN v.n * Pow10(v.e) ELSE v.n

Den(v) == IF IsFinite(v) /\ v.e < 0 THEN Pow10(-v.e) ELSE 1

IsNumber(v) == v.t = "int" \/ IsFinite(v)

\* a render call has computed pixels_to_omit
Computed == last_render # "none" /\ pixels_to_omit # -1

\* p = ceil(a / b) * 2, for a >= 0 and b > 0
IsTwiceCeil(p, a, b) ==
    /\ p % 2 = 0
    /\ (p \div 2) * b >= a
    /\ ((p \div 2) - 1) * b < a

\* C6: pixels_to_omit is ceil(SDRNG / 3.75) * 2 when SFREQ == 40 and
\* ceil(SDRNG / (3e8 / (2 * SFREQ * 1e6))) * 2 otherwise, SFREQ and SDRNG
\* being the values stored in the header, integer or fractional.
C6_BlankingFromStoredValues ==
    LET f == Get(header, SFREQ)
        d == Get(header, SDRNG)
    IN  (Computed /\ IsNumber(f) /\ IsNumber(d)) =>
            IF EqualsInt(f, 40)
            THEN IsTwiceCeil(pixels_to_omit, 4 * Num(d), 15 * Den(d))
            ELSE IsTwiceCeil(pixels_to_omit, Num(d) * Num(f), 150 * Den(d) * Den(f))

\* C6, as the code has it: the same two formulas over int(SFREQ) and int(SDRNG), the
\* header values truncated to integers (SFREQ is compared with 40 after the
\* truncation).
C6_BlankingFromTruncatedValues ==
    LET f == IntOf(Get(header, SFREQ))
        d == IntOf(Get(header, SDRNG))
    IN  Computed =>
            /\ f.ok /\ d.ok /\ f.n # 0
            /\ IF f.n = 40
               THEN IsTwiceCeil(pixels_to_omit, 4 * d.n, 15)
               ELSE IsTwiceCeil(pixels_to_omit, d.n * f.n, 150)

\* SFREQ = 40 and the fractional SDRNG = 15.5 give 8, as SDRNG = 15 does
C6_Witness ==
    /\ Computed
    /\ Get(header, SFREQ) = IntV(40)
    /\ Get(header, SDRNG) = FloatV(155, -1)
    /\ pixels_to_omit = 8

----------------------------------------------------------------------------
(* Header text and the metadata round trip, checked under SpecText: a      *)
(* capture that decodes and renders, with one more header line drawn from  *)
(* a family of texts.                                                      *)

MaxValLen == 2

ValAlphabet == {"1", ".", "e", "^B2"}

ValueTexts ==
    UNION {[1..len -> ValAlphabet] : len \in 0..MaxValLen}
    \cup {<<"5", "1", "2">>, <<"t", "r", "u", "e">>, <<"F", "a", "l", "s", "e">>,
          <<"1", "e", "3">>, <<".", "0", "0", "0", "0", "1">>, <<"a", "\"", "^B2">>,
          <<"1", " ", "x">>, <<"n", "a", "n">>, <<"I", "n", "f">>}

Descriptions ==
    {<<>>, <<"d">>, <<"a", "\\", "\"">>,
     <<"N","u","m","b","e","r"," ","o","f"," ","s","a","m","p","l","e","s">>}

LineStarts == {<<>>, <<" ">>, CC}

LineKeys == {<<"K">>, <<"k", "C", "C">>, FIFO, EOH_MARKER}

Gaps == {<<" ">>, <<" ", " ">>}

\* the extra line: every value text under the key K, with and without a
\* description, and every layout of a line around two values
TextLines ==
    {<<"K", " ">> \o val \o tail :
        val \in ValueTexts, tail \in {<<>>, <<" ">> \o CC \o <<"d">>}}
    \cup
    {start \o key \o gap \o val \o sep \o CC \o d :
        start \in LineStarts, key \in LineKeys, gap \in Gaps,
        val \in {<<>>, <<"5", "1", "2">>}, sep \in {<<>>, <<" ">>}, d \in Descriptions}

\* the extra line comes before the other header lines or after them
InitText ==
    /\ NoAutoTypeCall
    /\ \E line \in TextLines, first \in BOOLEAN :
          Fresh((IF first THEN line \o CRLF ELSE <<>>)
                \o Line(DABIT, <<"8">>) \o Line(FIFO, <<"1">>) \o Line(SFREQ, <<"4", "0">>)
                \o Line(SDRNG, <<"2">>) \o Line(BO2RA, <<"0">>)
                \o (IF first THEN <<>> ELSE line \o CRLF)
                \o EOH_MARKER \o CRLF \o Padded(1, 6) \o Payload(0, 5),
                TRUE)

SpecText == InitText /\ [][Next]_vars

\* the header lines of the file, as _process_header splits them
FileLines == HeaderLines(Slice(content, 0, eoh))

\* the line with its whitespace runs collapsed
Collapsed(line) == JoinSpace(SplitWhitespace(line))

IsComment(line) == StartsWith(line, CC) \/ StartsWith(line, <<"*", "*">>)

\* the line is KEY<space>REST and no comment
IsKeyRest(line) == ~IsComment(line) /\ Find(Collapsed(line), <<" ">>) # -1

KeyOfLine(line) == Slice(Collapsed(line), 0, Find(Collapsed(line), <<" ">>))

RestOfLine(line) == SliceFrom(Collapsed(line), Find(Collapsed(line), <<" ">>) + 1)

\* the entry C2 gives for REST, with auto_type as C1 describes it
ClaimedEntry(rest) ==
    IF Find(rest, CC) # -1
    THEN Entry(ClaimedAutoType(Strip(Slice(rest, 0, Find(rest, CC)))),
               Strip(SliceFrom(rest, Find(rest, CC) + 2)))
    ELSE Entry(ClaimedAutoType(Strip(rest)), NA)

\* C2: every non-comment line KEY<space>REST is stored under KEY as
\* {auto_type(trim(REST[:i])), trim(REST[i+2:])} when "CC" is first found in
\* REST at i, and as {auto_type(trim(REST)), "N/A"} when REST holds no "CC"
\* (the synthetic EOH entry and a later line with the same key replace it).
C2_LineStored ==
    (constructed /\ "_process_header" \in calls) =>
        \A j \in 1..Len(FileLines) :
            (/\ IsKeyRest(FileLines[j])
             /\ KeyOfLine(FileLines[j]) # EOH_MARKER
             /\ \A k \in (j + 1)..Len(FileLines) :
                   IsKeyRest(FileLines[k]) => KeyOfLine(FileLines[k]) # KeyOfLine(FileLines[j]))
            => /\ KeyOfLine(FileLines[j]) \in DOMAIN header
               /\ header[KeyOfLine(FileLines[j])] = ClaimedEntry(RestOfLine(FileLines[j]))

\* C7: the header that json.loads reads back from the raster's json_data
\* field equals the header that was saved: the same keys, and for every key
\* the same value, of the same type, and the same description.
C7_RoundTrip == loaded => data_dict = header

\* a round trip of a header holding a float without a fractional part
C7_Witness ==
    /\ loaded
    /\ <<"K">> \in DOMAIN header
    /\ header[<<"K">>].value.t = "float"
    /\ header[<<"K">>].value.e >= 0
    /\ header[<<"K">>].description = <<"d">>

----------------------------------------------------------------------------
(* The session as a whole: the state the constructor leaves, and what      *)
(* render calls do to it.                                                  *)

\* the constructor decoded a matrix
Valid == "array_created" \in log

\* C11: whatever the input, the constructor ends, and a session in which no
\* matrix was decoded is explicitly invalid: its header is empty, or its
\* matrix exists and is empty.
C11_InvalidStateExplicit ==
    (constructed /\ ~Valid) =>
        \/ header = EmptyDict
        \/ has_image_array /\ image_array = EmptyArray

\* the matrix the constructor decoded
DecodedArray == GetImageArray(header, image_size, image_data).array

\* C12: after every completed render call on a decoded session, the first
\* one and the later ones, each ray is pixels_to_omit columns of the highest
\* brightness followed by its samples_per_ray samples, and no more.
C12_RadiusAxis ==
    (Valid /\ last_render = "ok") =>
        image_array = PrependColumns(DecodedArray, pixels_to_omit, HighestBrightness(header))

\* a step that is a call of render (on its own or inside saveto or
\* save_with_metadata) which raised
RenderRaised == renders' = renders + 1 /\ last_render' = "raised"

\* C13: a render call that raises leaves the header and the matrix of the
\* session as they were before the call.
C13_FailedRenderNoEffect ==
    [][RenderRaised => (header' = header /\ image_array' = image_array)]_vars

----------------------------------------------------------------------------
(* Lines that cannot be parsed, checked under SpecText.                    *)

\* the value text of REST: what precedes the first "CC", trimmed
ValueOfRest(rest) ==
    IF Find(rest, CC) # -1 THEN Strip(Slice(rest, 0, Find(rest, CC))) ELSE Strip(rest)

\* the entry _process_header builds for REST
StoredEntry(rest) ==
    Entry(AutoType(ValueOfRest(rest)),
          IF Find(rest, CC) # -1 THEN Strip(SliceFrom(rest, Find(rest, CC) + 2)) ELSE NA)

\* a non-comment line with a value after the key that auto_type coerces
WellFormed(line) ==
    IsKeyRest(line) /\ AutoType(ValueOfRest(RestOfLine(line))) # ValueErrorV

\* a non-comment line without a value, or with one that auto_type fails on
Unparsable(line) == ~IsComment(line) /\ ~WellFormed(line)

\* C14: a line that cannot be parsed is skipped and nothing else is lost:
\* the header the constructor leaves holds the synthetic EOH entry, an entry for every well-formed
\* non-comment line (that of the last such line of its key), and nothing
\* that comes from a skipped line.
C14_BadLinesSkipped ==
    LET lines == FileLines
        of == [j \in 1..Len(lines) |->
                  [stores |-> WellFormed(lines[j]),
                   key |-> KeyOfLine(lines[j]),
                   entry |-> StoredEntry(RestOfLine(lines[j]))]]
    IN  (AsConstructed /\ "_process_header" \in calls) =>
            /\ EOH_MARKER \in DOMAIN header
            /\ header[EOH_MARKER] = Entry(IntV(eoh), EOH_DESCRIPTION)
            /\ \A j \in 1..Len(lines) : of[j].stores => of[j].key \in DOMAIN header
            /\ \A k \in DOMAIN header \ {EOH_MARKER} :
                  \E j \in 1..Len(lines) :
                      /\ of[j].stores
                      /\ of[j].key = k
                      /\ header[k] = of[j].entry
                      /\ \A i \in (j + 1)..Len(lines) : of[i].stores => of[i].key # k

\* a header region that begins with a line whose value fails coercion, and
\* a header that holds the lines after it
C14_Witness ==
    /\ constructed /\ "_process_header" \in calls
    /\ Len(FileLines) >= 6
    /\ IsKeyRest(FileLines[1]) /\ Unparsable(FileLines[1])
    /\ KeyOfLine(FileLines[1]) \notin DOMAIN header
    /\ {DABIT, FIFO, SFREQ, SDRNG, BO2RA, EOH_MARKER} \subseteq DOMAIN header

----------------------------------------------------------------------------
(* interpolate, checked under SpecInterpolate: sessions of up to two rays  *)
(* of two samples, and sessions without a matrix, that receive render and  *)
(* interpolate calls.                                                      *)

\* the interpolate calls a session may receive
MaxInterpolations == 2

\* the bytes of a payload and the size a prefix declares
MaxBytes == 8

\* the methods griddata knows
Methods == {"nearest", "linear", "cubic"}

Rows(array) == Len(array)

Cols(array) == IF array = EmptyArray THEN 0 ELSE Len(array[1])

\* a resampling that keeps the grid of the data
GriddataCoarse(data, method) ==
    [r \in 1..Rows(data) |-> [c \in 1..Cols(data) |-> <<method, r, c>>]]

\* griddata(points, data.ravel(), (fine_x_mesh, fine_y_mesh), method): one
\* value for every point of the fine grid, which has num_rows * 2 rows of
\* num_cols * 2 points.  The resampled values are floats the model does not
\* compute: an entry records the method and the grid point it belongs to.
Griddata(data, method) ==
    [r \in 1..(2 * Rows(data)) |-> [c \in 1..(2 * Cols(data)) |-> <<method, r, c>>]]

\* PolarImage.interpolate: whether the body of its try block raised, and
\* self.image_array as the call leaves it.  The body raises when the
\* attribute image_array does not exist, when the matrix is np.array([])
\* (its shape does not unpack into two numbers), when griddata does not know
\* the method, and when linear or cubic is asked for points that lie on one
\* line (a single ray or a single sample per ray), which Qhull cannot
\* triangulate.
InterpolateResult(hasArray, array, method) ==
    IF \/ ~hasArray
       \/ array = EmptyArray
       \/ method \notin Methods
       \/ method # "nearest" /\ (Rows(array) < 2 \/ Cols(array) < 2)
    THEN [failed |-> TRUE, array |-> array]
    ELSE [failed |-> FALSE, array |-> Griddata(array, method)]

\* the effect on the session of an interpolate call that did r
InterpolateEffect(r) ==
    /\ image_array' = r.array
    /\ last_interpolate' = IF r.failed THEN "failed" ELSE "ok"
    /\ log' = IF r.failed THEN log \cup {"interpolate_error"} ELSE log
    /\ interpolations' = interpolations + 1

\* polar_image.interpolate(method)
Interpolate ==
    /\ constructed /\ interpolations < MaxInterpolations
    /\ \E method \in Methods \cup {"other"} :
          InterpolateEffect(InterpolateResult(has_image_array, image_array, method))
    /\ UNCHANGED <<content, readable, constructed, header, eoh, image_size, image_data,
                   has_image_array, calls, renders, last_render, pixels_to_omit,
                   has_png, png_text, loaded, data_dict, at_in, at_out>>

NextInterpolate == Construct \/ RenderCall \/ Interpolate

InitInterpolate ==
    /\ NoAutoTypeCall
    /\ \E dabit \in {<<"4">>, <<"1", "2">>}, fifo \in 1..2, size \in 0..MaxBytes,
          len \in 0..MaxBytes, marked \in BOOLEAN :
          Fresh(Capture(dabit, DecStr(fifo), <<"4", "0">>, <<"2">>, <<"0">>,
                        IF marked THEN EOH_MARKER \o CRLF ELSE <<>>,
                        Padded(size, 10), Payload(0, len)), TRUE)

SpecInterpolate == InitInterpolate /\ [][NextInterpolate]_vars

\* a step that is a call of interpolate
InterpolateStep == interpolations' = interpolations + 1

\* C15: a call of interpolate ends without raising in every session state;
\* when its resampling fails the matrix stays as it was (and a session
\* without a matrix stays without one), and when it succeeds an (R, C)
\* matrix is replaced by one of shape (2R, 2C).  The header is not touched.
C15_InterpolateFrame ==
    [][InterpolateStep =>
          /\ header' = header
          /\ has_image_array' = has_image_array
          /\ last_interpolate' \in {"ok", "failed"}
          /\ last_interpolate' = "failed" => image_array' = image_array
          /\ last_interpolate' = "ok" =>
                /\ Rows(image_array') = 2 * Rows(image_array)
                /\ \A r \in 1..Rows(image_array') :
                      Len(image_array'[r]) = 2 * Cols(image_array)]_vars

\* a matrix of two rays was resampled to four rays, and a later call that
\* failed has left the four rays in place
C15_Witness ==
    /\ interpolations = 2
    /\ last_interpolate = "failed"
    /\ "interpolate_error" \in log
    /\ Rows(image_array) = 4
    /\ Cols(image_array) >= 4

----------------------------------------------------------------------------
(* The split of the file, checked under Spec.                              *)

\* the index of the first marker, and of the first line terminator from
\* there on, relative to the marker (-1: none)
MarkerIndex == Find(content, EOH_MARKER)

TerminatorIndex == Find(SliceFrom(content, MarkerIndex), CRLF)

\* C16: for a file that holds the marker, the header region ends with the
\* first line terminator after the first marker (with the file, when no
\* terminator follows), the image region is the rest of the file, and the
\* value of the synthetic EOH entry is the length of the header region.
C16_HeaderRegion ==
    (constructed /\ readable /\ MarkerIndex # -1) =>
        /\ eoh = IF TerminatorIndex # -1 THEN MarkerIndex + TerminatorIndex + 2
                 ELSE Len(content)
        /\ EOH_MARKER \in DOMAIN header
        /\ header[EOH_MARKER].value = IntV(eoh)
        /\ Slice(content, 0, eoh) \o ImageRegion = content
====
